---- MODULE Spec2Model ----
(***************************************************************************)
(* A model of vUnit (src/src/index.js): a polyfill that publishes a        *)
(* stylesheet of viewport-proportional classes and republishes it when a   *)
(* polled change check finds the viewport resized.                         *)
(*                                                                         *)
(* JavaScript values are tagged records [t |-> <type>, v |-> <value>], so  *)
(* that `a || b` (truthiness) can be modelled as the language defines it.  *)
(* The document is the sequence of the nodes the head element holds.       *)
(***************************************************************************)
EXTENDS Integers, Sequences, FiniteSets, TLC

\* ------------------------------------------------------------------ bounds

\* Animation-frame callbacks that may be queued and not yet run.
MaxPending == 2

\* The resizes and the cycles of a counted run.
MaxMoves == 3
MaxCycles == 3

\* ------------------------------------------------------- program constants

\* for (let range = 1; range <= 100; range += 1)
MaxRange == 100

\* computedHeight = height / 100, computedWidth = width / 100
Percent == 100

\* ------------------------------------------------------------ JS values

Undefined == [t |-> "undefined"]
Null == [t |-> "null"]
Str(s) == [t |-> "str", v |-> s]
Num(n) == [t |-> "num", v |-> n]
Fn(f) == [t |-> "fn", v |-> f]
Obj(o) == [t |-> "obj", v |-> o]

\* ToBoolean: undefined, null, "" and 0 are falsy; objects and functions truthy.
Truthy(x) ==
    CASE x.t = "undefined" -> FALSE
      [] x.t = "null" -> FALSE
      [] x.t = "str" -> x.v # ""
      [] x.t = "num" -> x.v # 0
      [] OTHER -> TRUE

\* a || b
Or(a, b) == IF Truthy(a) THEN a ELSE b

\* ------------------------------------------------------------- the inputs

Size(w, h) == [width |-> w, height |-> h]

\* document.documentElement.clientWidth / clientHeight: the empty viewport,
\* a portrait one that differs from it in height only, and a landscape one
\* that differs from the portrait one in width only. Multiples of 100, so that
\* the division by 100 is exact in double arithmetic.
Sizes == {Size(0, 0), Size(0, 400), Size(800, 400)}

Entry(s, p, r) == [selector |-> s, property |-> p, reference |-> r]

\* Rule maps, as the sequence of their entries in Object.keys order; an
\* entry's reference is a string, or undefined when the entry has none.
MapVw == <<Entry(".vw", "width", Str("vw"))>>
MapMixed == <<Entry(".vmin", "font-size", Str("vmin")), Entry(".x", "top", Str("vx"))>>

\* More rule maps: both axes, vmin and vmax, an unknown and a missing
\* reference, and the empty object.
MapAxes == <<Entry(".vw", "width", Str("vw")), Entry(".vh", "height", Str("vh"))>>
MapMinMax == <<Entry(".vmin", "font-size", Str("vmin")),
               Entry(".vmax", "font-size", Str("vmax"))>>
MapOdd == <<Entry(".a", "left", Str("VW")), Entry(".b", "right", Undefined)>>
MapEmpty == <<>>

\* More viewport sizes: landscape, portrait and the one of the specification's
\* example.
GenSizes == {Size(0, 0), Size(800, 400), Size(400, 800), Size(1000, 500)}

\* The options objects of the runs that exercise rule generation.
GenOptsInputs ==
    { [stylesheetId |-> Undefined, viewportObserverInterval |-> Undefined,
       CSSMap |-> Obj(map), onResize |-> Undefined] :
      map \in {MapAxes, MapMinMax, MapOdd, MapEmpty} }

\* The options objects vUnit is called with.
OptsInputs ==
    { [stylesheetId |-> Undefined, viewportObserverInterval |-> Undefined,
       CSSMap |-> Undefined, onResize |-> Undefined],
      [stylesheetId |-> Undefined, viewportObserverInterval |-> Undefined,
       CSSMap |-> Obj(MapVw), onResize |-> Undefined],
      [stylesheetId |-> Str("custom"), viewportObserverInterval |-> Num(50),
       CSSMap |-> Obj(MapMixed), onResize |-> Fn("cb")],
      [stylesheetId |-> Str(""), viewportObserverInterval |-> Num(0),
       CSSMap |-> Null, onResize |-> Fn("cb")] }

\* The state of a host global: a truthy object, declared but falsy, undeclared.
Globals == {"ok", "falsy", "undeclared"}

\* ------------------------------------------------------------------ state

VARIABLES
    window,        \* the global `window`
    document,      \* the global `document`
    opts,          \* the argument of vUnit
    viewport,      \* the root element's client size (the host's)
    ret,           \* how the call of vUnit ended; "none" before it
    options,       \* vunit.options
    viewportSize,  \* vunit.viewportSize
    dom,           \* the children of the head element, in order
    timerArmed,    \* window.setInterval was called
    pending,       \* queued requestAnimationFrame callbacks
    ticked,        \* the interval's callback ran at least once
    cycle,         \* what the last run of viewportObserver did
    checks,        \* the last three change checks: <<sampled, result>>
    firstCheck,    \* the first change check
    everChanged,   \* some change check returned true
    lastChange,    \* the size sampled by the last cycle that generated rules
    tally          \* a counted run's resizes, cycles and publishes

vars == <<window, document, opts, viewport, ret, options, viewportSize, dom,
          timerArmed, pending, ticked, cycle, checks, firstCheck, everChanged,
          lastChange, tally>>

\* resizes, cycles, publishes: how many so far; moved: the resizes since the
\* last change check; lastMoved: those between the last two checks.
NoTally == [resizes |-> 0, cycles |-> 0, publishes |-> 0, moved |-> 0,
            lastMoved |-> 0]

Zero == Size(0, 0)
NoOptions == [t |-> "undefined"]
NoCheck == [sampled |-> Zero, result |-> FALSE, done |-> FALSE]
NoChange == [made |-> FALSE, size |-> Zero]
NoCycle == [seq |-> 0, caller |-> "none", changed |-> FALSE, sampled |-> Zero,
            calls |-> <<>>, error |-> "none", prior |-> "none", removed |-> 0,
            appended |-> 0, seen |-> [count |-> 0, current |-> FALSE]]

\* ------------------------------------------------------- pure functions

\* A slip: `??` for `||`, so that only undefined and null give the default.
ResolveOptions_Nullish(o) ==
    LET pick(a, b) == IF a.t \in {"undefined", "null"} THEN b ELSE a
    IN  [stylesheetId |-> pick(o.stylesheetId, Str("v-unit-stylesheet")),
         viewportObserverInterval |-> pick(o.viewportObserverInterval, Num(100)),
         CSSMap |-> pick(o.CSSMap, Null),
         onResize |-> pick(o.onResize, Fn("noop"))]

\* vunit.options: each option is the caller's value when truthy, else the default.
ResolveOptions(o) ==
    [stylesheetId |-> Or(o.stylesheetId, Str("v-unit-stylesheet")),
     viewportObserverInterval |-> Or(o.viewportObserverInterval, Num(100)),
     CSSMap |-> Or(o.CSSMap, Null),
     onResize |-> Or(o.onResize, Fn("noop"))]

\* Math.min, Math.max
Min(a, b) == IF a < b THEN a ELSE b
Max(a, b) == IF a > b THEN a ELSE b

\* A slip: vmin and vmax are taken the wrong way round.
RuleValue_SwapsMinMax(reference, size, range) ==
    LET computedHeight == size.height \div Percent
        computedWidth == size.width \div Percent
        vmin == Max(computedWidth, computedHeight)
        vmax == Min(computedWidth, computedHeight)
    IN  CASE reference = Str("vw") -> computedWidth * range
          [] reference = Str("vh") -> computedHeight * range
          [] reference = Str("vmin") -> vmin * range
          [] reference = Str("vmax") -> vmax * range
          [] OTHER -> 0

\* The switch on map[selector].reference: the value of one rule.
RuleValue(reference, size, range) ==
    LET computedHeight == size.height \div Percent
        computedWidth == size.width \div Percent
        vmin == Min(computedWidth, computedHeight)
        vmax == Max(computedWidth, computedHeight)
    IN  CASE reference = Str("vw") -> computedWidth * range
          [] reference = Str("vh") -> computedHeight * range
          [] reference = Str("vmin") -> vmin * range
          [] reference = Str("vmax") -> vmax * range
          [] OTHER -> 0

\* One filled template: _SELECTOR__RANGE_{_PROPERTY_:_VALUE_px}
Rule(entry, size, range) ==
    [selector |-> entry.selector, range |-> range, property |-> entry.property,
     value |-> RuleValue(entry.reference, size, range)]

\* A slip: the loop stops before the last range.
SelectorRules_StopsShort(entry, size) ==
    [range \in 1..(MaxRange - 1) |-> Rule(entry, size, range)]

\* The inner loop: the rules of one selector, range 1 to 100.
SelectorRules(entry, size) == [range \in 1..MaxRange |-> Rule(entry, size, range)]

\* Object.keys(map).forEach: the rules of every selector, appended in order.
RECURSIVE ConcatRules(_, _)
ConcatRules(map, size) ==
    IF map = <<>> THEN <<>>
    ELSE SelectorRules(Head(map), size) \o ConcatRules(Tail(map), size)

\* The text of every rule map and size of the model, computed once.
RulesTable ==
    [map \in {MapVw, MapMixed, MapAxes, MapMinMax, MapOdd, MapEmpty},
     size \in Sizes \cup GenSizes |-> ConcatRules(map, size)]

\* The text createCSSRules builds for a rule map and a size.
AllRules(map, size) ==
    IF <<map, size>> \in DOMAIN RulesTable THEN RulesTable[map, size]
    ELSE ConcatRules(map, size)

\* A slip: a missing rule map yields an empty text instead of an error.
createCSSRules_EmptyOnNull(size, map) ==
    IF map.t = "obj"
    THEN [error |-> "none", text |-> AllRules(map.v, size)]
    ELSE [error |-> "none", text |-> <<>>]

\* createCSSRules: Object.keys(null) raises a TypeError.
createCSSRules(size, map) ==
    IF map.t = "obj"
    THEN [error |-> "none", text |-> AllRules(map.v, size)]
    ELSE [error |-> "TypeError", text |-> <<>>]

\* createStylesheet: an empty style element carrying the configured id.
createStylesheet(o) ==
    [tag |-> "style", id |-> o.stylesheetId.v, media |-> "screen", text |-> <<>>]

\* appendCSSRulesToStylesheet
appendCSSRulesToStylesheet(CSSRules, stylesheet) ==
    [stylesheet EXCEPT !.text = CSSRules]

\* document.getElementById: the position of the first node with the id, or 0.
getElementById(doc, id) ==
    IF \E i \in 1..Len(doc) : doc[i].id = id
    THEN CHOOSE i \in 1..Len(doc) :
            doc[i].id = id /\ \A j \in 1..(i - 1) : doc[j].id # id
    ELSE 0

\* head.removeChild
removeChild(doc, i) == [j \in 1..(Len(doc) - 1) |-> IF j < i THEN doc[j] ELSE doc[j + 1]]

\* A slip: the previous stylesheet is left in the head.
appendStylesheetOnHead_KeepsLegacy(stylesheet, doc, o) == Append(doc, stylesheet)

\* appendStylesheetOnHead: remove the previous stylesheet, if any, then append.
appendStylesheetOnHead(stylesheet, doc, o) ==
    LET legacyStylesheet == getElementById(doc, o.stylesheetId.v)
    IN  IF legacyStylesheet # 0
        THEN Append(removeChild(doc, legacyStylesheet), stylesheet)
        ELSE Append(doc, stylesheet)

\* calculateViewportSize
calculateViewportSize(client) == [height |-> client.height, width |-> client.width]

\* A slip: only the width is compared.
viewportHasChanged_WidthOnly(client, stored) ==
    [sampled |-> calculateViewportSize(client),
     viewportSize |-> calculateViewportSize(client),
     result |-> (client.width # stored.width)]

\* A slip: the stored size is left as it was.
viewportHasChanged_NeverStores(client, stored) ==
    [sampled |-> calculateViewportSize(client),
     viewportSize |-> stored,
     result |-> (client.height # stored.height \/ client.width # stored.width)]

\* A slip: a change is reported only when both axes differ.
viewportHasChanged_BothAxes(client, stored) ==
    [sampled |-> calculateViewportSize(client),
     viewportSize |-> calculateViewportSize(client),
     result |-> (client.height # stored.height /\ client.width # stored.width)]

\* A slip: only the stored width is replaced.
viewportHasChanged_StoresWidthOnly(client, stored) ==
    [sampled |-> calculateViewportSize(client),
     viewportSize |-> [height |-> stored.height, width |-> client.width],
     result |-> (client.height # stored.height \/ client.width # stored.width)]

\* A slip: the comparison is lost and every check reports a change.
viewportHasChanged_AlwaysTrue(client, stored) ==
    [sampled |-> calculateViewportSize(client),
     viewportSize |-> calculateViewportSize(client),
     result |-> TRUE]

\* viewportHasChanged: the size it samples, the stored size it leaves (the
\* sample) and the result.
viewportHasChanged(client, stored) ==
    LET currentViewportSize == calculateViewportSize(client)
        differentHeight == currentViewportSize.height # stored.height
        differentWidth == currentViewportSize.width # stored.width
    IN  [sampled |-> currentViewportSize,
         viewportSize |-> currentViewportSize,
         result |-> (differentHeight \/ differentWidth)]

\* A slip: the callback is handed a fresh zero size, not the stored one.
invokeOnResize_ZeroSize(o, size, throws) ==
    [calls |-> <<[width |-> 0, height |-> 0]>>,
     error |-> IF o.onResize.v = "cb" /\ throws THEN "CallbackError" ELSE "none"]

\* vunit.options.onResize(vunit.viewportSize): the calls made and how they end.
\* `throws` is whether the caller's callback raises (the default never does).
invokeOnResize(o, size, throws) ==
    [calls |-> <<size>>,
     error |-> IF o.onResize.v = "cb" /\ throws THEN "CallbackError" ELSE "none"]

\* A slip: onResize is called before the stylesheet is appended.
DocumentAtCallback_BeforePublish(before, after) == before

\* The document onResize finds: the call follows appendStylesheetOnHead.
DocumentAtCallback(before, after) == after

\* What a callback that looks the stylesheet up finds in document `doc`: how
\* many nodes carry the id, and whether each holds the rules of `size`.
Observation(doc, o, size) ==
    LET found == {i \in 1..Len(doc) : doc[i].id = o.stylesheetId.v}
    IN  [count |-> Cardinality(found),
         current |-> /\ o.CSSMap.t = "obj"
                     /\ \A i \in found :
                            doc[i].text = AllRules(o.CSSMap.v, size)]

\* viewportObserver: one check-and-publish cycle on document `doc`.
viewportObserver(client, stored, doc, o, throws) ==
    LET check == viewportHasChanged(client, stored)
        base == [sampled |-> check.sampled, viewportSize |-> check.viewportSize,
                 changed |-> check.result,
                 dom |-> doc, calls |-> <<>>, error |-> "none",
                 removed |-> 0, appended |-> 0, generated |-> FALSE,
                 seen |-> [count |-> 0, current |-> FALSE]]
    IN  IF ~check.result THEN base
        ELSE LET stylesheet == createStylesheet(o)
                 CSSRules == createCSSRules(check.viewportSize, o.CSSMap)
             IN  IF CSSRules.error # "none"
                 THEN [base EXCEPT !.error = CSSRules.error]
                 ELSE LET filled == appendCSSRulesToStylesheet(CSSRules.text, stylesheet)
                          after == appendStylesheetOnHead(filled, doc, o)
                          called == invokeOnResize(o, check.viewportSize, throws)
                      IN  [base EXCEPT
                             !.dom = after,
                             !.removed = Len(doc) + 1 - Len(after),
                             !.appended = 1,
                             !.generated = TRUE,
                             !.calls = called.calls,
                             !.seen = Observation(DocumentAtCallback(doc, after),
                                                  o, check.viewportSize),
                             !.error = called.error]

\* ---------------------------------------------------------------- actions

\* What the head element holds before vUnit is called.
InitialHead == <<[tag |-> "title", id |-> "", media |-> "", text |-> <<>>]>>

Init ==
    /\ window \in Globals
    /\ document \in Globals
    /\ opts \in OptsInputs
    /\ viewport \in Sizes
    /\ ret = "none"
    /\ options = NoOptions
    /\ viewportSize = Zero
    /\ dom = InitialHead
    /\ timerArmed = FALSE
    /\ pending = 0
    /\ ticked = FALSE
    /\ cycle = NoCycle
    /\ checks = <<>>
    /\ firstCheck = NoCheck
    /\ everChanged = FALSE
    /\ lastChange = NoChange
    /\ tally = NoTally

\* A slip: only `window` is tested.
HostGuard_WindowOnly(w, d) ==
    CASE w = "undeclared" -> "throw"
      [] w = "falsy" -> "return"
      [] OTHER -> "go"

\* `!window || !document`: "throw" when the operand read is undeclared, "return"
\* when the test is true, "go" otherwise.
HostGuard(w, d) ==
    CASE w = "undeclared" -> "throw"
      [] w = "falsy" -> "return"
      [] d = "undeclared" -> "throw"
      [] d = "falsy" -> "return"
      [] OTHER -> "go"

\* The last three checks, the newest last.
Remember(hist, check) ==
    LET all == Append(hist, [sampled |-> check.sampled, result |-> check.changed])
    IN  IF Len(all) > 3 THEN Tail(all) ELSE all

\* The record of a run of viewportObserver.
CycleRecord(run, caller, last) ==
    [seq |-> 1 - last.seq, caller |-> caller, changed |-> run.changed,
     sampled |-> run.sampled, calls |-> run.calls, error |-> run.error,
     prior |-> last.error, removed |-> run.removed, appended |-> run.appended,
     seen |-> run.seen]

\* The state a run of viewportObserver leaves.
Observed(run, caller) ==
    /\ viewportSize' = run.viewportSize
    /\ dom' = run.dom
    /\ cycle' = CycleRecord(run, caller, cycle)
    /\ checks' = Remember(checks, run)
    /\ firstCheck' = IF firstCheck.done THEN firstCheck
                     ELSE [sampled |-> run.sampled, result |-> run.changed,
                           done |-> TRUE]
    /\ everChanged' = (everChanged \/ run.changed)
    /\ lastChange' = IF run.generated
                     THEN [made |-> TRUE, size |-> run.sampled]
                     ELSE lastChange

\* A slip: the interval is armed whether or not the first cycle returned.
ArmsTimer_Always(run) == TRUE

\* Whether setInterval is reached: the first viewportObserver() returned.
ArmsTimer(run) == run.error = "none"

\* The call of vUnit(options): the host guard, the options, the stored size,
\* the first viewportObserver() and window.setInterval.
StartStep ==
    /\ ret = "none"
    /\ LET guard == HostGuard(window, document)
       IN  \/ /\ guard = "throw"
              /\ ret' = "ReferenceError"
              /\ UNCHANGED <<options, viewportSize, dom, timerArmed, cycle, checks,
                             firstCheck, everChanged, lastChange>>
           \/ /\ guard = "return"
              /\ ret' = "undefined"
              /\ UNCHANGED <<options, viewportSize, dom, timerArmed, cycle, checks,
                             firstCheck, everChanged, lastChange>>
           \/ /\ guard = "go"
              /\ \E throws \in BOOLEAN :
                    LET o == ResolveOptions(opts)
                        run == viewportObserver(viewport, Zero, dom, o, throws)
                    IN  /\ options' = o
                        /\ Observed(run, "start")
                        /\ timerArmed' = ArmsTimer(run)
                        /\ ret' = IF run.error = "none" THEN "undefined" ELSE run.error
    /\ UNCHANGED <<window, document, opts, viewport, pending, ticked>>

Start == StartStep /\ UNCHANGED tally

\* The interval's callback: requestAnimationFrame(viewportObserver).
Tick ==
    /\ timerArmed
    /\ pending < MaxPending
    /\ pending' = pending + 1
    /\ ticked' = TRUE
    /\ UNCHANGED <<window, document, opts, viewport, ret, options, viewportSize,
                   dom, timerArmed, cycle, checks, firstCheck, everChanged,
                   lastChange, tally>>

\* A slip: an error in a frame callback ends the polling.
StaysArmed_UntilError(armed, run) == armed /\ run.error = "none"

\* Whether the interval stays armed after a frame callback's run: an error in
\* the callback is reported to the host and clears nothing.
StaysArmed(armed, run) == armed

\* An animation frame: one queued viewportObserver runs.
FrameStep ==
    /\ pending > 0
    /\ \E throws \in BOOLEAN :
          LET run == viewportObserver(viewport, viewportSize, dom, options, throws)
          IN  /\ Observed(run, "frame")
              /\ timerArmed' = StaysArmed(timerArmed, run)
    /\ pending' = pending - 1
    /\ UNCHANGED <<window, document, opts, viewport, ret, options, ticked>>

Frame == FrameStep /\ UNCHANGED tally

\* The host: the viewport is resized.
ResizeStep ==
    /\ \E s \in Sizes \ {viewport} : viewport' = s
    /\ UNCHANGED <<window, document, opts, ret, options, viewportSize, dom,
                   timerArmed, pending, ticked, cycle, checks, firstCheck,
                   everChanged, lastChange>>

Resize == ResizeStep /\ UNCHANGED tally

Next == Start \/ Tick \/ Frame \/ Resize

Spec == Init /\ [][Next]_vars

\* The interval fires again and again, and a queued frame callback is run.
FairSpec == Init /\ [][Next]_vars /\ WF_vars(Start) /\ WF_vars(Tick) /\ WF_vars(Frame)

\* The runs that exercise rule generation: more rule maps and sizes.
GenInit ==
    /\ window \in Globals
    /\ document \in Globals
    /\ opts \in GenOptsInputs
    /\ viewport \in GenSizes
    /\ ret = "none"
    /\ options = NoOptions
    /\ viewportSize = Zero
    /\ dom = InitialHead
    /\ timerArmed = FALSE
    /\ pending = 0
    /\ ticked = FALSE
    /\ cycle = NoCycle
    /\ checks = <<>>
    /\ firstCheck = NoCheck
    /\ everChanged = FALSE
    /\ lastChange = NoChange
    /\ tally = NoTally

GenResize ==
    /\ \E s \in GenSizes \ {viewport} : viewport' = s
    /\ UNCHANGED <<window, document, opts, ret, options, viewportSize, dom,
                   timerArmed, pending, ticked, cycle, checks, firstCheck,
                   everChanged, lastChange, tally>>

GenNext == Start \/ Tick \/ Frame \/ GenResize

GenSpec == GenInit /\ [][GenNext]_vars

\* The counted runs: the same steps, with the resizes, the cycles and the
\* nodes appended counted, up to MaxMoves resizes and MaxCycles cycles.

\* The tally after a step that did or did not run viewportObserver.
Tallied(t, ran, appended) ==
    IF ran
    THEN [t EXCEPT !.cycles = @ + 1, !.publishes = @ + appended,
                   !.lastMoved = t.moved, !.moved = 0]
    ELSE t

CountedStart ==
    /\ StartStep
    /\ tally' = Tallied(tally, cycle' # cycle, cycle'.appended)

CountedFrame ==
    /\ tally.cycles < MaxCycles
    /\ FrameStep
    /\ tally' = Tallied(tally, TRUE, cycle'.appended)

CountedResize ==
    /\ tally.resizes < MaxMoves
    /\ ResizeStep
    /\ tally' = [tally EXCEPT !.resizes = @ + 1, !.moved = @ + 1]

CountNext == CountedStart \/ Tick \/ CountedFrame \/ CountedResize

CountSpec == Init /\ [][CountNext]_vars

\* ----------------------------------------------------------------- claims

\* vUnit got past the host guard and resolved its options.
Configured == options # NoOptions

\* The positions of the head's nodes that carry the configured id.
Published ==
    IF Configured THEN {i \in 1..Len(dom) : dom[i].id = options.stylesheetId.v}
    ELSE {}

\* C1: with a rule map, once some cycle has detected a change the document
\* holds exactly one style node with the configured id, its content is the
\* rules of the size sampled by the last cycle that detected a change, and
\* there are never two nodes with the id.
C1_SinglePublishedNode ==
    Configured =>
        /\ Cardinality(Published) <= 1
        /\ (options.CSSMap.t = "obj" /\ everChanged) =>
              /\ Cardinality(Published) = 1
              /\ lastChange.made
              /\ cycle.changed => lastChange.size = cycle.sampled
              /\ \A i \in Published :
                    /\ dom[i].tag = "style"
                    /\ dom[i].text = AllRules(options.CSSMap.v, lastChange.size)

\* A second detected change replaced the node of the first.
C1_Witness ==
    /\ Configured
    /\ options.CSSMap.t = "obj"
    /\ cycle.caller = "frame"
    /\ cycle.changed
    /\ cycle.removed = 1
    /\ Cardinality(Published) = 1
    /\ firstCheck.result

\* C2 (as stated): onResize is called exactly once, with the sampled size, in
\* every cycle whose check returned true, and in no other.
C2_Original ==
    cycle.caller # "none" =>
        /\ cycle.changed => cycle.calls = <<cycle.sampled>>
        /\ ~cycle.changed => cycle.calls = <<>>

\* C2 (amended): onResize is called exactly once, with the size the check
\* sampled and stored, in every cycle whose check returned true and whose
\* rule generation did not raise; it is called neither in a cycle whose check
\* returned false nor in one whose rule generation raised.
C2_CallbackFiring ==
    cycle.caller # "none" =>
        /\ cycle.sampled = viewportSize
        /\ (cycle.changed /\ cycle.error # "TypeError") =>
              cycle.calls = <<cycle.sampled>>
        /\ (cycle.changed /\ cycle.error = "TypeError") => cycle.calls = <<>>
        /\ ~cycle.changed => cycle.calls = <<>>

\* A frame's cycle detected a change and called the caller's callback.
C2_Witness ==
    /\ cycle.caller = "frame"
    /\ cycle.changed
    /\ Configured
    /\ options.onResize.v = "cb"
    /\ cycle.calls = <<viewportSize>>
    /\ viewportSize # Zero

\* C3: a check that samples another size than the check before it returns
\* true, and a check that then samples that size again returns false.
C3_ChangeDetection ==
    /\ \A i \in 1..(Len(checks) - 1) :
          checks[i].sampled # checks[i + 1].sampled => checks[i + 1].result
    /\ \A i \in 1..(Len(checks) - 2) :
          (/\ checks[i].sampled # checks[i + 1].sampled
           /\ checks[i + 1].sampled = checks[i + 2].sampled)
              => ~checks[i + 2].result

\* Three checks sampled A, B, B with A and B differing in height only.
C3_Witness ==
    /\ Len(checks) = 3
    /\ checks[1].sampled.width = checks[2].sampled.width
    /\ checks[1].sampled.height # checks[2].sampled.height
    /\ checks[2].sampled = checks[3].sampled
    /\ checks[2].result
    /\ ~checks[3].result

\* C4 (as stated): the first check returns true whatever it samples.
C4_Original == firstCheck.done => firstCheck.result

\* C4 (amended): the first check returns true exactly when it samples a size
\* other than width 0 and height 0; on a 0 by 0 viewport it returns false.
C4_FirstCheck ==
    firstCheck.done => (firstCheck.result <=> firstCheck.sampled # Zero)

\* The first check sampled a viewport of width 0 and returned true.
C4_Witness ==
    /\ firstCheck.done
    /\ firstCheck.sampled.width = 0
    /\ firstCheck.result

\* A rule map is configured.
HasMap == Configured /\ options.CSSMap.t = "obj"

\* The one published node holds the rules generated for size S.
NodeShows(S) ==
    /\ HasMap
    /\ Cardinality(Published) = 1
    /\ \A i \in Published : dom[i].text = AllRules(options.CSSMap.v, S)

\* C5 (as stated): with a rule map and the timer armed, if the viewport stops
\* changing at a size S, the published node eventually holds the rules for S
\* and keeps them.
C5_Original ==
    \A S \in Sizes :
        (<>[](viewport = S) /\ <>(timerArmed /\ HasMap)) => <>[]NodeShows(S)

\* C5 (amended): with a rule map and the timer armed, if the viewport stops
\* changing at a size S, then eventually and from then on the stored size is
\* S and either the published node holds the rules for S, or S is 0 by 0, no
\* check has ever returned true and no node is published.
C5_EventuallyPublished ==
    \A S \in Sizes :
        (<>[](viewport = S) /\ <>(timerArmed /\ HasMap)) =>
            <>[](/\ viewportSize = S
                 /\ \/ NodeShows(S)
                    \/ S = Zero /\ ~everChanged /\ Published = {})

\* A frame's cycle published the rules of a size other than the first one.
C5_Witness ==
    /\ timerArmed
    /\ cycle.caller = "frame"
    /\ cycle.changed
    /\ viewport = viewportSize
    /\ viewport # firstCheck.sampled
    /\ NodeShows(viewport)

\* C6 (as stated): when the timer is armed exactly one cycle has run, and
\* until the first tick the document holds a node with the initial rules
\* (read for a start with a rule map).
C6_Original ==
    (timerArmed /\ ~ticked /\ HasMap) =>
        /\ Len(checks) = 1
        /\ cycle.caller = "start"
        /\ Cardinality(Published) = 1
        /\ \A i \in Published :
              /\ options.CSSMap.t = "obj"
              /\ dom[i].text = AllRules(options.CSSMap.v, firstCheck.sampled)

\* C6 (amended): when the timer is armed exactly one cycle has run, without
\* an error, and until the first tick the document holds a node with the
\* initial rules unless the initial viewport was 0 by 0: then the first check
\* returned false and no node is published.
C6_InitialCycle ==
    (timerArmed /\ ~ticked) =>
        /\ Len(checks) = 1
        /\ cycle.caller = "start"
        /\ cycle.error = "none"
        /\ IF firstCheck.sampled # Zero
           THEN NodeShows(firstCheck.sampled)
           ELSE Published = {}

\* The timer is armed, no tick yet, and the initial rules are published.
C6_Witness ==
    /\ timerArmed
    /\ ~ticked
    /\ firstCheck.sampled # Zero
    /\ NodeShows(firstCheck.sampled)
    /\ viewport # viewportSize

\* C7: without a rule map, a cycle that detects a change ends in a TypeError
\* raised to its caller, adds and removes no node and does not call onResize.
C7_NullMapCycle ==
    (Configured /\ options.CSSMap.t # "obj") =>
        /\ dom = InitialHead
        /\ cycle.changed =>
              /\ cycle.error = "TypeError"
              /\ cycle.appended = 0
              /\ cycle.removed = 0
              /\ cycle.calls = <<>>
              /\ cycle.caller = "start" => ret = "TypeError"

\* A frame's cycle detected a change without a rule map and raised.
C7_Witness ==
    /\ Configured
    /\ options.CSSMap.t # "obj"
    /\ cycle.caller = "frame"
    /\ cycle.changed
    /\ cycle.error = "TypeError"
    /\ cycle.prior = "TypeError"

\* C8 (as stated): without a rule map the start ends in an error, the timer
\* is never armed and no node is ever published, whatever the viewport.
C8_Original ==
    (Configured /\ options.CSSMap.t # "obj") =>
        /\ ret = "TypeError"
        /\ ~timerArmed
        /\ Published = {}

\* C8 (amended): without a rule map no node is ever published; the start ends
\* in an error and leaves the timer unarmed for every initial viewport other
\* than 0 by 0, and on a 0 by 0 viewport it returns and arms the timer.
C8_NullMapStart ==
    (Configured /\ options.CSSMap.t # "obj") =>
        /\ Published = {}
        /\ IF firstCheck.sampled # Zero
           THEN ret = "TypeError" /\ ~timerArmed /\ pending = 0 /\ ~ticked
           ELSE ret = "undefined" /\ timerArmed

\* A start without a rule map raised and armed nothing.
C8_Witness ==
    /\ Configured
    /\ options.CSSMap.t # "obj"
    /\ ret = "TypeError"
    /\ ~timerArmed
    /\ cycle.changed

\* The host lacks a usable window or document.
NoHost == window # "ok" \/ document # "ok"

\* Nothing was published, called or armed.
NothingStarted ==
    /\ dom = InitialHead
    /\ cycle = NoCycle
    /\ ~timerArmed
    /\ pending = 0
    /\ ~Configured

\* C9 (as stated): without a host nothing starts, and the call ends in another
\* way than a successful start, which returns undefined.
C9_Original ==
    (NoHost /\ ret # "none") => (NothingStarted /\ ret # "undefined")

\* C9 (amended): without a host nothing starts; the call raises a
\* ReferenceError when the global it reads is undeclared, and returns
\* undefined, as a successful start does, when window or document is falsy.
C9_DeclinedStart ==
    (NoHost /\ ret # "none") =>
        /\ NothingStarted
        /\ ret = IF window = "undeclared" \/ (window = "ok" /\ document = "undeclared")
                 THEN "ReferenceError" ELSE "undefined"

\* vUnit returned on a host whose document is falsy.
C9_Witness ==
    /\ window = "ok"
    /\ document = "falsy"
    /\ ret = "undefined"
    /\ NothingStarted

\* The start returned, so that the timer was armed.
WasArmed == Configured /\ ret = "undefined"

\* C10: once armed the timer stays armed, and after a cycle that failed
\* another cycle is run.
C10_LoopSurvives ==
    /\ [][timerArmed => timerArmed']_vars
    /\ [](WasArmed => timerArmed)
    /\ \A b \in {0, 1} :
          (WasArmed /\ cycle.error # "none" /\ cycle.seq = b) ~> (cycle.seq # b)

\* A frame's cycle ran after a frame's cycle that failed.
C10_Witness ==
    /\ timerArmed
    /\ ticked
    /\ cycle.caller = "frame"
    /\ cycle.prior \in {"TypeError", "CallbackError"}
    /\ cycle.error = "none"
    /\ cycle.changed

\* The names of the options, and the default of each.
OptionNames == {"stylesheetId", "viewportObserverInterval", "CSSMap", "onResize"}
DefaultOf(name) ==
    CASE name = "stylesheetId" -> [t |-> "str", v |-> "v-unit-stylesheet"]
      [] name = "viewportObserverInterval" -> [t |-> "num", v |-> 100]
      [] name = "CSSMap" -> [t |-> "null"]
      [] name = "onResize" -> [t |-> "fn", v |-> "noop"]

\* The caller's value is undefined, null, the empty string or the number 0.
Falsy(x) ==
    \/ x.t \in {"undefined", "null"}
    \/ x.t = "str" /\ x.v = ""
    \/ x.t = "num" /\ x.v = 0

\* C11 (as stated): each resolved option is the caller's value whenever the
\* caller supplied one, whatever it is, and the default only otherwise.
C11_Original ==
    Configured =>
        \A name \in OptionNames :
            options[name] = IF opts[name].t # "undefined" THEN opts[name]
                            ELSE DefaultOf(name)

\* C11 (amended): each resolved option is the caller's value whenever the
\* caller supplied a truthy one, and the default when the caller supplied
\* none or a falsy one (null, the empty string, 0); the argument is unchanged.
C11_ResolvedOptions ==
    Configured =>
        \A name \in OptionNames :
            options[name] = IF Falsy(opts[name]) THEN DefaultOf(name)
                            ELSE opts[name]

\* A caller's empty id and interval 0 were replaced by the defaults.
C11_Witness ==
    /\ Configured
    /\ opts.stylesheetId = [t |-> "str", v |-> ""]
    /\ options.stylesheetId.v = "v-unit-stylesheet"
    /\ opts.viewportObserverInterval = [t |-> "num", v |-> 0]
    /\ options.viewportObserverInterval.v = 100

\* The dimension a reference is based on, in pixels: the width, the height,
\* the smaller or the larger of the two, and nothing for any other reference.
Basis(reference, size) ==
    CASE reference = [t |-> "str", v |-> "vw"] -> size.width
      [] reference = [t |-> "str", v |-> "vh"] -> size.height
      [] reference = [t |-> "str", v |-> "vmin"] ->
            IF size.width <= size.height THEN size.width ELSE size.height
      [] reference = [t |-> "str", v |-> "vmax"] ->
            IF size.width >= size.height THEN size.width ELSE size.height
      [] OTHER -> 0

\* The entry and the range the k-th rule of a text belongs to.
EntryAt(k) == options.CSSMap.v[((k - 1) \div 100) + 1]
RangeAt(k) == ((k - 1) % 100) + 1

\* C12: in the published text, the value of the rule of an entry and a range
\* r is a hundredth of the entry's dimension (width for vw, height for vh,
\* the smaller for vmin, the larger for vmax, 0 otherwise) times r; on an 800
\* by 400 viewport that is 40 for vmin and 80 for vmax at range 10.
C12_RuleValues ==
    (HasMap /\ lastChange.made) =>
        \A i \in Published :
            /\ \A k \in 1..Len(dom[i].text) :
                  dom[i].text[k].value * 100 =
                      Basis(EntryAt(k).reference, lastChange.size) * RangeAt(k)
            /\ (lastChange.size = [width |-> 800, height |-> 400]
                /\ options.CSSMap.v = MapMinMax) =>
                  /\ dom[i].text[10].value = 40
                  /\ dom[i].text[110].value = 80

\* A frame's cycle published the vmin and vmax rules of a portrait viewport.
C12_Witness ==
    /\ HasMap
    /\ options.CSSMap.v = MapMinMax
    /\ cycle.caller = "frame"
    /\ cycle.changed
    /\ lastChange.size = [width |-> 400, height |-> 800]
    /\ \E i \in Published :
          dom[i].text[10].value = 40 /\ dom[i].text[110].value = 80

\* C13: the published text of a rule map with N selectors holds 100 * N
\* rules, the k-th being the rule of selector ((k - 1) div 100) + 1 and range
\* ((k - 1) mod 100) + 1: selector-major, ranges 1 to 100 ascending.
C13_RuleCount ==
    (HasMap /\ lastChange.made) =>
        \A i \in Published :
            /\ Len(dom[i].text) = 100 * Len(options.CSSMap.v)
            /\ \A k \in 1..Len(dom[i].text) :
                  /\ dom[i].text[k].selector = EntryAt(k).selector
                  /\ dom[i].text[k].property = EntryAt(k).property
                  /\ dom[i].text[k].range = RangeAt(k)

\* A text of 200 rules was published for a map of two selectors.
C13_Witness ==
    /\ HasMap
    /\ Len(options.CSSMap.v) = 2
    /\ lastChange.made
    /\ \E i \in Published :
          /\ Len(dom[i].text) = 200
          /\ dom[i].text[200].range = 100
          /\ dom[i].text[101].range = 1
          /\ dom[i].text[100].selector # dom[i].text[101].selector

\* C15: after every change check, whatever it returned, the stored size is
\* the size the check sampled, in width and in height.
C15_StoredIsSample ==
    /\ cycle.caller # "none" =>
          /\ viewportSize.width = cycle.sampled.width
          /\ viewportSize.height = cycle.sampled.height
    /\ checks # <<>> => viewportSize = checks[Len(checks)].sampled
    /\ cycle.caller = "none" => viewportSize = Zero

\* A check returned false and one before it true, on a height the start
\* had not stored.
C15_Witness ==
    /\ Len(checks) = 3
    /\ checks[2].result
    /\ ~checks[3].result
    /\ viewportSize = checks[3].sampled
    /\ viewportSize.height # firstCheck.sampled.height

\* C16: when onResize is called, the check has stored the size it is handed,
\* and the document already holds one style node with the configured id,
\* whose content is the rules of that size.
C16_CallbackAfterPublish ==
    cycle.calls # <<>> =>
        /\ cycle.changed
        /\ cycle.appended = 1
        /\ cycle.calls[1] = cycle.sampled
        /\ cycle.seen.count = 1
        /\ cycle.seen.current

\* The caller's callback was called in a frame's cycle that replaced a node.
C16_Witness ==
    /\ Configured
    /\ options.onResize.v = "cb"
    /\ cycle.caller = "frame"
    /\ cycle.calls = <<viewportSize>>
    /\ cycle.removed = 1
    /\ cycle.seen.count = 1
    /\ cycle.seen.current
    /\ viewportSize.width # 0

\* C18: with a rule map, a style node with the configured id exists exactly
\* when some change check has returned true, and then its content is the
\* rules of the stored viewport size; this holds after a cycle whose callback
\* raised as well.
C18_NodeTracksStoredSize ==
    HasMap =>
        /\ (Published # {}) <=> everChanged
        /\ \A i \in Published :
              dom[i].text = AllRules(options.CSSMap.v, viewportSize)

\* After a cycle that found no change the node holds the rules of the stored
\* size, which is not 0 by 0; and before any change there is no node.
C18_Witness ==
    /\ HasMap
    /\ cycle.caller = "frame"
    /\ ~cycle.changed
    /\ everChanged
    /\ viewportSize.width # 0
    /\ \E i \in Published :
          /\ dom[i].text = AllRules(options.CSSMap.v, viewportSize)
          /\ dom[i].text # AllRules(options.CSSMap.v, Zero)

\* C19: a cycle that detects a change and fails before publishing leaves the
\* sample as the stored size and the document as it was; a cycle that then
\* samples the same size again, and any cycle that samples the size of the
\* check before it, reports no change, publishes nothing and calls nothing.
C19_FailedCycleKeepsSample ==
    /\ (cycle.changed /\ cycle.error = "TypeError") =>
          /\ viewportSize = cycle.sampled
          /\ cycle.appended = 0
          /\ cycle.removed = 0
          /\ dom = InitialHead
    /\ \A i \in 1..(Len(checks) - 1) :
          checks[i].sampled = checks[i + 1].sampled => ~checks[i + 1].result
    /\ (/\ Len(checks) >= 2
        /\ checks[Len(checks)].sampled = checks[Len(checks) - 1].sampled) =>
          /\ ~cycle.changed
          /\ cycle.appended = 0
          /\ cycle.calls = <<>>
          /\ cycle.error = "none"
          /\ cycle.prior = "TypeError" => dom = InitialHead

\* The cycle after one that failed before publishing sampled the same size:
\* it found no change, and the document still has no rules for that size.
C19_Witness ==
    /\ cycle.caller = "frame"
    /\ cycle.prior = "TypeError"
    /\ ~cycle.changed
    /\ Len(checks) = 3
    /\ checks[2].result
    /\ checks[2].sampled = checks[3].sampled
    /\ viewportSize = checks[3].sampled
    /\ viewportSize # Zero
    /\ dom = InitialHead

\* C20: a cycle run after the viewport changed and came back to the stored
\* size reports no change, replaces no node and calls nothing; no more nodes
\* are published than cycles run.
C20_ReturnUnnoticed ==
    /\ tally.publishes <= tally.cycles
    /\ (/\ tally.cycles >= 2
        /\ tally.lastMoved >= 2
        /\ checks[Len(checks)].sampled = checks[Len(checks) - 1].sampled) =>
          /\ ~cycle.changed
          /\ cycle.appended = 0
          /\ cycle.removed = 0
          /\ cycle.calls = <<>>

\* Two cycles ran and the second found no change after two resizes: one node
\* was published, fewer than the viewport changed.
C20_Witness ==
    /\ HasMap
    /\ tally.cycles = 2
    /\ tally.lastMoved = 2
    /\ tally.resizes = 2
    /\ tally.publishes = 1
    /\ cycle.caller = "frame"
    /\ ~cycle.changed
    /\ cycle.calls = <<>>
    /\ Cardinality(Published) = 1

====
